---- MODULE Spec2Model ----
(***************************************************************************)
(* Credits Delegation contract: account holders deposit native tokens,     *)
(* authorize or revoke spenders, and spenders move tokens from an owner's  *)
(* balance to their own.  The model follows src/src/contract/exec.rs,      *)
(* init.rs, query.rs and state.rs.  Every execute request is one atomic    *)
(* step, as the host serializes requests and commits or rolls back the     *)
(* storage writes of a request as a unit.                                  *)
(***************************************************************************)
EXTENDS Integers, Sequences, FiniteSets, TLC

VARIABLES
    BALANCES,             \* state.rs: Map<&Addr, u128>, a partial map
    AUTHORIZED_SPENDERS,  \* state.rs: Map<(&Addr, &Addr), bool>, a partial map
    ADMIN,                \* state.rs: Item<Addr>
    DENOM,                \* state.rs: Item<String>
    last,                 \* the last request handled: its info, msg and result
    pre,                  \* BALANCES and AUTHORIZED_SPENDERS before the last request
    requests,             \* number of requests handled so far
    deposited,            \* sum of the amounts of the successful Deposits
    data,                 \* the Binary a query returned: <<binary>>, <<>> if none
    grant_history,        \* per (owner, spender): its successful AuthorizeSpender and
                          \* RevokeSpender requests, oldest first
    false_ledger          \* a second ledger fed the same requests, in which
                          \* RevokeSpender stores false: its maps and last result

vars == <<BALANCES, AUTHORIZED_SPENDERS, ADMIN, DENOM, last, pre, requests, deposited, data,
          grant_history, false_ledger>>

----------------------------------------------------------------------------
(* Bounds of the model *)

\* Largest value of the balance integer type (u128 in the source, scaled down).
U128_MAX == 2

\* Longest sequence of execute requests explored.
MaxRequests == 4

\* Longest sequence of execute requests explored with the grant requests recorded
\* and the second ledger fed.
MaxHistoryRequests == 3

----------------------------------------------------------------------------
(* Inputs *)

\* Identity strings the validation capability accepts.
Addrs == {"admin", "user1", "spender1"}

\* Identity strings the validation capability rejects.
MalformedAddrs == {"ab"}

AddrStrings == Addrs \cup MalformedAddrs

Denoms == {"ucosm", "usdt"}

\* Amounts of coins and of spends: nothing, one unit, the largest value.
Amounts == {0, 1, U128_MAX}

Coin(denom, amount) == [amount |-> amount, denom |-> denom]

\* info.funds: no coin, one coin of the configured or of another denomination,
\* or two coins.
FundsInputs ==
    {<<>>}
    \cup {<<Coin("ucosm", a)>> : a \in Amounts}
    \cup {<<Coin("usdt", 1)>>}
    \cup {<<Coin("ucosm", 1), Coin(d, 1)>> : d \in Denoms}

\* SpendFrom arguments: a valid owner with any amount, or a malformed owner.
SpendInputs == (Addrs \X Amounts) \cup (MalformedAddrs \X {1})

MessageInfo(sender, funds) == [funds |-> funds, sender |-> sender]

----------------------------------------------------------------------------
(* Results and errors *)

\* Ok(Response)
NoErr == [msg |-> "", variant |-> "Ok"]

\* ContractError::Unauthorized {}
Unauthorized == [msg |-> "Unauthorized", variant |-> "Unauthorized"]

\* ContractError::Std(StdError::generic_err(msg))
StdGenericErr(msg) == [msg |-> msg, variant |-> "Std"]

\* Arithmetic overflow abort of a build with overflow checks: the request fails
\* and the host rolls its storage writes back.
Panic == [msg |-> "arithmetic overflow", variant |-> "Panic"]

\* The kind of a result: the ContractError variant a caller can match on.
ErrorKind(result) == result.variant

\* deps.api.addr_validate: Ok(Addr) for a well-formed identity, an error otherwise.
addr_validate(input) ==
    IF input \in Addrs
    THEN [err |-> NoErr, v |-> input]
    ELSE [err |-> StdGenericErr("Invalid input: human address too short"), v |-> input]

----------------------------------------------------------------------------
(* Storage maps (cw_storage_plus::Map) *)

\* Map::may_load: Some(value) as <<value>>, None as <<>>.
may_load(map, key) == IF key \in DOMAIN map THEN <<map[key]>> ELSE <<>>

\* Option::unwrap_or
unwrap_or(opt, default) == IF opt = <<>> THEN default ELSE opt[1]

\* Map::save
save(map, key, value) ==
    [k \in (DOMAIN map) \cup {key} |-> IF k = key THEN value ELSE map[k]]

\* Map::remove
remove(map, key) == [k \in (DOMAIN map) \ {key} |-> map[k]]

----------------------------------------------------------------------------
(* Integer arithmetic of the balance type *)

\* prev + amount: exact when it fits; on overflow the build decides, a wrapped
\* value (no overflow checks) or an abort (overflow checks).
add_u128(a, b) ==
    IF a + b <= U128_MAX
    THEN {[panic |-> FALSE, v |-> a + b]}
    ELSE {[panic |-> FALSE, v |-> (a + b) % (U128_MAX + 1)], [panic |-> TRUE, v |-> 0]}

\* balance -= amount: exact when it fits; on underflow a wrapped value or an abort.
sub_u128(a, b) ==
    IF a >= b
    THEN {[panic |-> FALSE, v |-> a - b]}
    ELSE {[panic |-> FALSE, v |-> (a - b) % (U128_MAX + 1)], [panic |-> TRUE, v |-> 0]}

----------------------------------------------------------------------------
(* Handlers.  Each returns the set of outcomes of one request: the two maps *)
(* after it and its result.                                                 *)

Outcome(bal, auth, result) == [auth |-> auth, bal |-> bal, result |-> result]

\* Variant of one_native_token that only rejects an empty funds list.
one_native_token_nonempty(info) ==
    IF Len(info.funds) < 1
    THEN [err |-> StdGenericErr("Must send exactly one native token"), v |-> 0]
    ELSE [err |-> NoErr, v |-> info.funds[1].amount]

\* exec.rs one_native_token: exactly one coin must be attached; its amount.
one_native_token(info) ==
    IF Len(info.funds) # 1
    THEN [err |-> StdGenericErr("Must send exactly one native token"), v |-> 0]
    ELSE [err |-> NoErr, v |-> info.funds[1].amount]

\* exec.rs execute_deposit
execute_deposit(bal, auth, info) ==
    LET amount == one_native_token(info) IN
    IF amount.err # NoErr
    THEN {Outcome(bal, auth, amount.err)}
    ELSE LET sender == info.sender
             prev == unwrap_or(may_load(bal, sender), 0)
         IN  {IF s.panic
              THEN Outcome(bal, auth, Panic)
              ELSE Outcome(save(bal, sender, s.v), auth, NoErr)
                : s \in add_u128(prev, amount.v)}

\* Variant of execute_authorize_spender that stores the spender string as given,
\* without validating it.
execute_authorize_spender_unvalidated(bal, auth, info, spender) ==
    LET owner == info.sender
    IN  {Outcome(bal, save(auth, <<owner, spender>>, TRUE), NoErr)}

\* Variant of execute_authorize_spender that also grants the reverse pair.
execute_authorize_spender_mutual(bal, auth, info, spender) ==
    LET owner == info.sender
        spender_addr == addr_validate(spender)
    IN  IF spender_addr.err # NoErr
        THEN {Outcome(bal, auth, spender_addr.err)}
        ELSE {Outcome(bal,
                      save(save(auth, <<owner, spender_addr.v>>, TRUE),
                           <<spender_addr.v, owner>>, TRUE),
                      NoErr)}

\* Variant of execute_authorize_spender that flips the grant: a pair already
\* granted loses its grant.
execute_authorize_spender_toggle(bal, auth, info, spender) ==
    LET owner == info.sender
        spender_addr == addr_validate(spender)
    IN  IF spender_addr.err # NoErr
        THEN {Outcome(bal, auth, spender_addr.err)}
        ELSE {Outcome(bal,
                      save(auth, <<owner, spender_addr.v>>,
                           ~unwrap_or(may_load(auth, <<owner, spender_addr.v>>), FALSE)),
                      NoErr)}

\* Variant of execute_authorize_spender that refuses a caller holding no balance.
execute_authorize_spender_funded(bal, auth, info, spender) ==
    LET owner == info.sender
        spender_addr == addr_validate(spender)
    IN  IF spender_addr.err # NoErr
        THEN {Outcome(bal, auth, spender_addr.err)}
        ELSE IF unwrap_or(may_load(bal, owner), 0) = 0
        THEN {Outcome(bal, auth, Unauthorized)}
        ELSE {Outcome(bal, save(auth, <<owner, spender_addr.v>>, TRUE), NoErr)}

\* exec.rs execute_authorize_spender
execute_authorize_spender(bal, auth, info, spender) ==
    LET owner == info.sender
        spender_addr == addr_validate(spender)
    IN  IF spender_addr.err # NoErr
        THEN {Outcome(bal, auth, spender_addr.err)}
        ELSE {Outcome(bal, save(auth, <<owner, spender_addr.v>>, TRUE), NoErr)}

\* Variant of execute_revoke_spender that refuses a pair that has no grant.
execute_revoke_spender_strict(bal, auth, info, spender) ==
    LET owner == info.sender
        spender_addr == addr_validate(spender)
    IN  IF spender_addr.err # NoErr
        THEN {Outcome(bal, auth, spender_addr.err)}
        ELSE IF may_load(auth, <<owner, spender_addr.v>>) = <<>>
        THEN {Outcome(bal, auth, StdGenericErr("No such grant"))}
        ELSE {Outcome(bal, remove(auth, <<owner, spender_addr.v>>), NoErr)}

\* Variant of execute_revoke_spender that removes the key with owner and spender swapped.
execute_revoke_spender_swapped(bal, auth, info, spender) ==
    LET owner == info.sender
        spender_addr == addr_validate(spender)
    IN  IF spender_addr.err # NoErr
        THEN {Outcome(bal, auth, spender_addr.err)}
        ELSE {Outcome(bal, remove(auth, <<spender_addr.v, owner>>), NoErr)}

\* exec.rs execute_revoke_spender
execute_revoke_spender(bal, auth, info, spender) ==
    LET owner == info.sender
        spender_addr == addr_validate(spender)
    IN  IF spender_addr.err # NoErr
        THEN {Outcome(bal, auth, spender_addr.err)}
        ELSE {Outcome(bal, remove(auth, <<owner, spender_addr.v>>), NoErr)}

\* Variant of the authorization test that lets every caller through.
spend_allowed_any(is_owner, is_authorized) == TRUE

\* exec.rs execute_spend_from, the authorization test: !is_owner && !is_authorized rejects.
spend_allowed(is_owner, is_authorized) == is_owner \/ is_authorized

\* Variant of the sufficiency test that lets every amount through.
balance_sufficient_any(balance, amount) == TRUE

\* exec.rs execute_spend_from, the sufficiency test: balance < amount rejects.
balance_sufficient(balance, amount) == ~(balance < amount)

\* Variant of execute_spend_from that tests the balance only after the credit is
\* written: an insufficient balance is reported with the caller already credited.
execute_spend_from_late_check(bal, auth, info, owner, amount) ==
    LET spender == info.sender
        owner_addr == addr_validate(owner)
    IN
    IF owner_addr.err # NoErr THEN {Outcome(bal, auth, owner_addr.err)} ELSE
    LET is_owner == spender = owner_addr.v
        is_authorized == unwrap_or(may_load(auth, <<owner_addr.v, spender>>), FALSE)
    IN
    IF ~spend_allowed(is_owner, is_authorized) THEN {Outcome(bal, auth, Unauthorized)} ELSE
    LET balance == unwrap_or(may_load(bal, owner_addr.v), 0)
        prev == unwrap_or(may_load(bal, spender), 0)
    IN
    UNION {IF c.panic
           THEN {Outcome(bal, auth, Panic)}
           ELSE LET credited == save(bal, spender, c.v) IN
                IF ~balance_sufficient(balance, amount)
                THEN {Outcome(credited, auth, StdGenericErr("Insufficient balance"))}
                ELSE {IF d.panic
                      THEN Outcome(bal, auth, Panic)
                      ELSE Outcome(save(credited, owner_addr.v, d.v), auth, NoErr)
                        : d \in sub_u128(unwrap_or(may_load(credited, owner_addr.v), 0),
                                         amount)}
             : c \in add_u128(prev, amount)}

\* Variant of execute_spend_from that reads the caller's balance before the debit
\* is written, so a self-spend credits a stale value.
execute_spend_from_stale_credit(bal, auth, info, owner, amount) ==
    LET spender == info.sender
        owner_addr == addr_validate(owner)
    IN
    IF owner_addr.err # NoErr THEN {Outcome(bal, auth, owner_addr.err)} ELSE
    LET is_owner == spender = owner_addr.v
        is_authorized == unwrap_or(may_load(auth, <<owner_addr.v, spender>>), FALSE)
    IN
    IF ~spend_allowed(is_owner, is_authorized) THEN {Outcome(bal, auth, Unauthorized)} ELSE
    LET balance == unwrap_or(may_load(bal, owner_addr.v), 0)
        prev == unwrap_or(may_load(bal, spender), 0)
    IN
    IF ~balance_sufficient(balance, amount)
    THEN {Outcome(bal, auth, StdGenericErr("Insufficient balance"))}
    ELSE
    UNION {IF d.panic
           THEN {Outcome(bal, auth, Panic)}
           ELSE LET debited == save(bal, owner_addr.v, d.v)
                IN  {IF c.panic
                     THEN Outcome(bal, auth, Panic)
                     ELSE Outcome(save(debited, spender, c.v), auth, NoErr)
                       : c \in add_u128(prev, amount)}
             : d \in sub_u128(balance, amount)}

\* Variant of execute_spend_from that returns at once when the caller is the owner,
\* before the sufficiency test.
execute_spend_from_self_shortcut(bal, auth, info, owner, amount) ==
    LET spender == info.sender
        owner_addr == addr_validate(owner)
    IN
    IF owner_addr.err # NoErr THEN {Outcome(bal, auth, owner_addr.err)} ELSE
    LET is_owner == spender = owner_addr.v
        is_authorized == unwrap_or(may_load(auth, <<owner_addr.v, spender>>), FALSE)
    IN
    IF ~spend_allowed(is_owner, is_authorized) THEN {Outcome(bal, auth, Unauthorized)} ELSE
    IF is_owner THEN {Outcome(bal, auth, NoErr)} ELSE
    LET balance == unwrap_or(may_load(bal, owner_addr.v), 0) IN
    IF ~balance_sufficient(balance, amount)
    THEN {Outcome(bal, auth, StdGenericErr("Insufficient balance"))}
    ELSE
    UNION {IF d.panic
           THEN {Outcome(bal, auth, Panic)}
           ELSE LET debited == save(bal, owner_addr.v, d.v)
                    prev == unwrap_or(may_load(debited, spender), 0)
                IN  {IF c.panic
                     THEN Outcome(bal, auth, Panic)
                     ELSE Outcome(save(debited, spender, c.v), auth, NoErr)
                       : c \in add_u128(prev, amount)}
             : d \in sub_u128(balance, amount)}

\* Variant of execute_spend_from that lets the administrator spend from any owner.
execute_spend_from_admin_override(bal, auth, info, owner, amount) ==
    LET spender == info.sender
        owner_addr == addr_validate(owner)
    IN
    IF owner_addr.err # NoErr THEN {Outcome(bal, auth, owner_addr.err)} ELSE
    LET is_owner == spender = owner_addr.v
        is_authorized == unwrap_or(may_load(auth, <<owner_addr.v, spender>>), FALSE)
    IN
    IF ~(spender = ADMIN \/ spend_allowed(is_owner, is_authorized))
    THEN {Outcome(bal, auth, Unauthorized)}
    ELSE
    LET balance == unwrap_or(may_load(bal, owner_addr.v), 0) IN
    IF ~balance_sufficient(balance, amount)
    THEN {Outcome(bal, auth, StdGenericErr("Insufficient balance"))}
    ELSE
    UNION {IF d.panic
           THEN {Outcome(bal, auth, Panic)}
           ELSE LET debited == save(bal, owner_addr.v, d.v)
                    prev == unwrap_or(may_load(debited, spender), 0)
                IN  {IF c.panic
                     THEN Outcome(bal, auth, Panic)
                     ELSE Outcome(save(debited, spender, c.v), auth, NoErr)
                       : c \in add_u128(prev, amount)}
             : d \in sub_u128(balance, amount)}

\* Variant of execute_spend_from that moves the amount the other way: it debits the
\* caller and credits the owner.
execute_spend_from_reversed(bal, auth, info, owner, amount) ==
    LET spender == info.sender
        owner_addr == addr_validate(owner)
    IN
    IF owner_addr.err # NoErr THEN {Outcome(bal, auth, owner_addr.err)} ELSE
    LET is_owner == spender = owner_addr.v
        is_authorized == unwrap_or(may_load(auth, <<owner_addr.v, spender>>), FALSE)
    IN
    IF ~spend_allowed(is_owner, is_authorized) THEN {Outcome(bal, auth, Unauthorized)} ELSE
    LET balance == unwrap_or(may_load(bal, spender), 0) IN
    IF ~balance_sufficient(balance, amount)
    THEN {Outcome(bal, auth, StdGenericErr("Insufficient balance"))}
    ELSE
    UNION {IF d.panic
           THEN {Outcome(bal, auth, Panic)}
           ELSE LET debited == save(bal, spender, d.v)
                    prev == unwrap_or(may_load(debited, owner_addr.v), 0)
                IN  {IF c.panic
                     THEN Outcome(bal, auth, Panic)
                     ELSE Outcome(save(debited, owner_addr.v, c.v), auth, NoErr)
                       : c \in add_u128(prev, amount)}
             : d \in sub_u128(balance, amount)}

\* Variant of execute_spend_from that takes a stored entry of (owner, spender) for
\* the grant, whatever its value.
execute_spend_from_has_key(bal, auth, info, owner, amount) ==
    LET spender == info.sender
        owner_addr == addr_validate(owner)
    IN
    IF owner_addr.err # NoErr THEN {Outcome(bal, auth, owner_addr.err)} ELSE
    LET is_owner == spender = owner_addr.v
        is_authorized == may_load(auth, <<owner_addr.v, spender>>) # <<>>
    IN
    IF ~spend_allowed(is_owner, is_authorized) THEN {Outcome(bal, auth, Unauthorized)} ELSE
    LET balance == unwrap_or(may_load(bal, owner_addr.v), 0) IN
    IF ~balance_sufficient(balance, amount)
    THEN {Outcome(bal, auth, StdGenericErr("Insufficient balance"))}
    ELSE
    UNION {IF d.panic
           THEN {Outcome(bal, auth, Panic)}
           ELSE LET debited == save(bal, owner_addr.v, d.v)
                    prev == unwrap_or(may_load(debited, spender), 0)
                IN  {IF c.panic
                     THEN Outcome(bal, auth, Panic)
                     ELSE Outcome(save(debited, spender, c.v), auth, NoErr)
                       : c \in add_u128(prev, amount)}
             : d \in sub_u128(balance, amount)}

\* Variant of execute_spend_from that tests the balance before the authorization.
execute_spend_from_balance_first(bal, auth, info, owner, amount) ==
    LET spender == info.sender
        owner_addr == addr_validate(owner)
    IN
    IF owner_addr.err # NoErr THEN {Outcome(bal, auth, owner_addr.err)} ELSE
    LET is_owner == spender = owner_addr.v
        is_authorized == unwrap_or(may_load(auth, <<owner_addr.v, spender>>), FALSE)
        balance == unwrap_or(may_load(bal, owner_addr.v), 0)
    IN
    IF ~balance_sufficient(balance, amount)
    THEN {Outcome(bal, auth, StdGenericErr("Insufficient balance"))}
    ELSE
    IF ~spend_allowed(is_owner, is_authorized) THEN {Outcome(bal, auth, Unauthorized)} ELSE
    UNION {IF d.panic
           THEN {Outcome(bal, auth, Panic)}
           ELSE LET debited == save(bal, owner_addr.v, d.v)
                    prev == unwrap_or(may_load(debited, spender), 0)
                IN  {IF c.panic
                     THEN Outcome(bal, auth, Panic)
                     ELSE Outcome(save(debited, spender, c.v), auth, NoErr)
                       : c \in add_u128(prev, amount)}
             : d \in sub_u128(balance, amount)}

\* exec.rs execute_spend_from
execute_spend_from(bal, auth, info, owner, amount) ==
    LET spender == info.sender
        owner_addr == addr_validate(owner)
    IN
    IF owner_addr.err # NoErr THEN {Outcome(bal, auth, owner_addr.err)} ELSE
    LET is_owner == spender = owner_addr.v
        is_authorized == unwrap_or(may_load(auth, <<owner_addr.v, spender>>), FALSE)
    IN
    IF ~spend_allowed(is_owner, is_authorized) THEN {Outcome(bal, auth, Unauthorized)} ELSE
    LET balance == unwrap_or(may_load(bal, owner_addr.v), 0) IN
    IF ~balance_sufficient(balance, amount)
    THEN {Outcome(bal, auth, StdGenericErr("Insufficient balance"))}
    ELSE
    UNION {IF d.panic
           THEN {Outcome(bal, auth, Panic)}
           ELSE LET debited == save(bal, owner_addr.v, d.v)
                    prev == unwrap_or(may_load(debited, spender), 0)
                IN  {IF c.panic
                     THEN Outcome(bal, auth, Panic)
                     ELSE Outcome(save(debited, spender, c.v), auth, NoErr)
                       : c \in add_u128(prev, amount)}
             : d \in sub_u128(balance, amount)}

\* msg/exec.rs ExecuteMsg
DepositMsg == [type |-> "Deposit"]

AuthorizeSpenderMsg(spender) == [spender |-> spender, type |-> "AuthorizeSpender"]

RevokeSpenderMsg(spender) == [spender |-> spender, type |-> "RevokeSpender"]

SpendFromMsg(owner, amount) == [amount |-> amount, owner |-> owner, type |-> "SpendFrom"]

\* exec.rs execute: dispatch on the message type.
execute(bal, auth, info, msg) ==
    IF msg.type = "Deposit" THEN execute_deposit(bal, auth, info)
    ELSE IF msg.type = "AuthorizeSpender"
    THEN execute_authorize_spender(bal, auth, info, msg.spender)
    ELSE IF msg.type = "RevokeSpender"
    THEN execute_revoke_spender(bal, auth, info, msg.spender)
    ELSE execute_spend_from(bal, auth, info, msg.owner, msg.amount)

\* RevokeSpender of the second ledger: the effect written as grant = false.
execute_revoke_spender_false(bal, auth, info, spender) ==
    LET owner == info.sender
        spender_addr == addr_validate(spender)
    IN  IF spender_addr.err # NoErr
        THEN {Outcome(bal, auth, spender_addr.err)}
        ELSE {Outcome(bal, save(auth, <<owner, spender_addr.v>>, FALSE), NoErr)}

\* execute of the second ledger: the same handlers, but for RevokeSpender.
execute_false_ledger(bal, auth, info, msg) ==
    IF msg.type = "RevokeSpender"
    THEN execute_revoke_spender_false(bal, auth, info, msg.spender)
    ELSE execute(bal, auth, info, msg)

----------------------------------------------------------------------------
(* Queries *)

\* Variant of query_balance that fails for an account without a stored balance.
query_balance_strict(bal, owner) ==
    LET owner_addr == addr_validate(owner) IN
    IF owner_addr.err # NoErr
    THEN [err |-> owner_addr.err, v |-> 0]
    ELSE IF may_load(bal, owner_addr.v) = <<>>
    THEN [err |-> StdGenericErr("not found"), v |-> 0]
    ELSE [err |-> NoErr, v |-> may_load(bal, owner_addr.v)[1]]

\* query.rs query_balance
query_balance(bal, owner) ==
    LET owner_addr == addr_validate(owner) IN
    IF owner_addr.err # NoErr
    THEN [err |-> owner_addr.err, v |-> 0]
    ELSE [err |-> NoErr, v |-> unwrap_or(may_load(bal, owner_addr.v), 0)]

\* query.rs query_is_authorized
query_is_authorized(auth, owner, spender) ==
    LET owner_addr == addr_validate(owner)
        spender_addr == addr_validate(spender)
    IN  IF owner_addr.err # NoErr THEN [err |-> owner_addr.err, v |-> FALSE]
        ELSE IF spender_addr.err # NoErr THEN [err |-> spender_addr.err, v |-> FALSE]
        ELSE [err |-> NoErr,
              v |-> unwrap_or(may_load(auth, <<owner_addr.v, spender_addr.v>>), FALSE)]

\* msg/query.rs QueryMsg
BalanceMsg(owner) == [owner |-> owner, type |-> "Balance"]

IsAuthorizedMsg(owner, spender) == [owner |-> owner, spender |-> spender, type |-> "IsAuthorized"]

\* to_json_binary: the JSON text of a value, as a Binary.
to_json_binary(value) == [json |-> value]

\* query.rs query: dispatch on the message type; Ok(Binary) or the error.
query(bal, auth, msg) ==
    LET r == IF msg.type = "Balance"
             THEN query_balance(bal, msg.owner)
             ELSE query_is_authorized(auth, msg.owner, msg.spender)
    IN  IF r.err # NoErr
        THEN [data |-> <<>>, err |-> r.err]
        ELSE [data |-> <<to_json_binary(r.v)>>, err |-> NoErr]

----------------------------------------------------------------------------
(* State machine *)

\* msg/init.rs InstantiateMsg, as the integration tests send it.
InstantiateMsg == [admin |-> "admin", denom |-> "ucosm"]

Empty == [k \in {} |-> 0]

\* init.rs instantiate: the state after the contract is set up.
Init ==
    /\ addr_validate(InstantiateMsg.admin).err = NoErr
    /\ ADMIN = addr_validate(InstantiateMsg.admin).v
    /\ DENOM = InstantiateMsg.denom
    /\ BALANCES = Empty
    /\ AUTHORIZED_SPENDERS = Empty
    /\ last = [info |-> MessageInfo("admin", <<>>), msg |-> [type |-> "Instantiate"],
               result |-> NoErr]
    /\ pre = [auth |-> Empty, bal |-> Empty]
    /\ requests = 0
    /\ deposited = 0
    /\ data = <<>>
    /\ grant_history = Empty
    /\ false_ledger = [auth |-> Empty, bal |-> Empty, result |-> NoErr]

\* Variant of Commit in which a successful request records its sender as the
\* administrator.
Commit_sender_becomes_admin(info, msg, out) ==
    /\ BALANCES' = out.bal
    /\ AUTHORIZED_SPENDERS' = out.auth
    /\ last' = [info |-> info, msg |-> msg, result |-> out.result]
    /\ deposited' = IF msg.type = "Deposit" /\ out.result = NoErr
                    THEN deposited + info.funds[1].amount
                    ELSE deposited
    /\ pre' = [auth |-> AUTHORIZED_SPENDERS, bal |-> BALANCES]
    /\ requests' = requests + 1
    /\ data' = <<>>
    /\ ADMIN' = IF out.result = NoErr THEN info.sender ELSE ADMIN
    /\ UNCHANGED <<DENOM, grant_history, false_ledger>>

\* The host applies one outcome of a request and reports its result.
Commit(info, msg, out) ==
    /\ BALANCES' = out.bal
    /\ AUTHORIZED_SPENDERS' = out.auth
    /\ last' = [info |-> info, msg |-> msg, result |-> out.result]
    /\ deposited' = IF msg.type = "Deposit" /\ out.result = NoErr
                    THEN deposited + info.funds[1].amount
                    ELSE deposited
    /\ pre' = [auth |-> AUTHORIZED_SPENDERS, bal |-> BALANCES]
    /\ requests' = requests + 1
    /\ data' = <<>>
    /\ UNCHANGED <<ADMIN, DENOM, grant_history, false_ledger>>

Deposit ==
    /\ requests < MaxRequests
    /\ \E sender \in Addrs, funds \in FundsInputs :
        \E out \in execute(BALANCES, AUTHORIZED_SPENDERS, MessageInfo(sender, funds), DepositMsg) :
            Commit(MessageInfo(sender, funds), DepositMsg, out)

AuthorizeSpender ==
    /\ requests < MaxRequests
    /\ \E sender \in Addrs, spender \in AddrStrings :
        \E out \in execute(BALANCES, AUTHORIZED_SPENDERS, MessageInfo(sender, <<>>),
                           AuthorizeSpenderMsg(spender)) :
            Commit(MessageInfo(sender, <<>>), AuthorizeSpenderMsg(spender), out)

RevokeSpender ==
    /\ requests < MaxRequests
    /\ \E sender \in Addrs, spender \in AddrStrings :
        \E out \in execute(BALANCES, AUTHORIZED_SPENDERS, MessageInfo(sender, <<>>),
                           RevokeSpenderMsg(spender)) :
            Commit(MessageInfo(sender, <<>>), RevokeSpenderMsg(spender), out)

SpendFrom ==
    /\ requests < MaxRequests
    /\ \E sender \in Addrs, arg \in SpendInputs :
        \E out \in execute(BALANCES, AUTHORIZED_SPENDERS, MessageInfo(sender, <<>>),
                           SpendFromMsg(arg[1], arg[2])) :
            Commit(MessageInfo(sender, <<>>), SpendFromMsg(arg[1], arg[2]), out)

Next == Deposit \/ AuthorizeSpender \/ RevokeSpender \/ SpendFrom

Spec == Init /\ [][Next]_vars

\* Both ledgers run on the same build: of the outcomes of the second ledger, those
\* that abort on overflow exactly when the outcome of the first does.
SameBuild(out, alts) ==
    LET same == {a \in alts : (a.result = Panic) <=> (out.result = Panic)}
    IN  IF same = {} THEN alts ELSE same

\* The host applies one outcome of a request to the ledger and the matching
\* outcome to the second ledger, and records a successful grant request.
CommitWithHistory(info, msg, out, alt) ==
    /\ BALANCES' = out.bal
    /\ AUTHORIZED_SPENDERS' = out.auth
    /\ last' = [info |-> info, msg |-> msg, result |-> out.result]
    /\ deposited' = IF msg.type = "Deposit" /\ out.result = NoErr
                    THEN deposited + info.funds[1].amount
                    ELSE deposited
    /\ pre' = [auth |-> AUTHORIZED_SPENDERS, bal |-> BALANCES]
    /\ requests' = requests + 1
    /\ data' = <<>>
    /\ grant_history' =
        IF msg.type \in {"AuthorizeSpender", "RevokeSpender"} /\ out.result = NoErr
        THEN save(grant_history, <<info.sender, msg.spender>>,
                  Append(unwrap_or(may_load(grant_history, <<info.sender, msg.spender>>),
                                   <<>>),
                         msg.type))
        ELSE grant_history
    /\ false_ledger' = [auth |-> alt.auth, bal |-> alt.bal, result |-> alt.result]
    /\ UNCHANGED <<ADMIN, DENOM>>

DepositWithHistory ==
    /\ requests < MaxHistoryRequests
    /\ \E sender \in Addrs, funds \in FundsInputs :
        \E out \in execute(BALANCES, AUTHORIZED_SPENDERS, MessageInfo(sender, funds), DepositMsg) :
            \E alt \in SameBuild(out, execute_false_ledger(false_ledger.bal, false_ledger.auth,
                                                          MessageInfo(sender, funds), DepositMsg)) :
                CommitWithHistory(MessageInfo(sender, funds), DepositMsg, out, alt)

AuthorizeSpenderWithHistory ==
    /\ requests < MaxHistoryRequests
    /\ \E sender \in Addrs, spender \in AddrStrings :
        \E out \in execute(BALANCES, AUTHORIZED_SPENDERS, MessageInfo(sender, <<>>),
                           AuthorizeSpenderMsg(spender)) :
            \E alt \in SameBuild(out, execute_false_ledger(false_ledger.bal, false_ledger.auth,
                                                          MessageInfo(sender, <<>>),
                                                          AuthorizeSpenderMsg(spender))) :
                CommitWithHistory(MessageInfo(sender, <<>>), AuthorizeSpenderMsg(spender),
                                  out, alt)

RevokeSpenderWithHistory ==
    /\ requests < MaxHistoryRequests
    /\ \E sender \in Addrs, spender \in AddrStrings :
        \E out \in execute(BALANCES, AUTHORIZED_SPENDERS, MessageInfo(sender, <<>>),
                           RevokeSpenderMsg(spender)) :
            \E alt \in SameBuild(out, execute_false_ledger(false_ledger.bal, false_ledger.auth,
                                                          MessageInfo(sender, <<>>),
                                                          RevokeSpenderMsg(spender))) :
                CommitWithHistory(MessageInfo(sender, <<>>), RevokeSpenderMsg(spender),
                                  out, alt)

SpendFromWithHistory ==
    /\ requests < MaxHistoryRequests
    /\ \E sender \in Addrs, arg \in SpendInputs :
        \E out \in execute(BALANCES, AUTHORIZED_SPENDERS, MessageInfo(sender, <<>>),
                           SpendFromMsg(arg[1], arg[2])) :
            \E alt \in SameBuild(out, execute_false_ledger(false_ledger.bal, false_ledger.auth,
                                                          MessageInfo(sender, <<>>),
                                                          SpendFromMsg(arg[1], arg[2]))) :
                CommitWithHistory(MessageInfo(sender, <<>>), SpendFromMsg(arg[1], arg[2]),
                                  out, alt)

\* Execute requests, with the grant requests recorded and the second ledger fed.
NextWithHistory ==
    DepositWithHistory \/ AuthorizeSpenderWithHistory
        \/ RevokeSpenderWithHistory \/ SpendFromWithHistory

SpecWithHistory == Init /\ [][NextWithHistory]_vars

\* A query carries no sender and no funds.
QueryInfo == MessageInfo("", <<>>)

\* IsAuthorized arguments: every pair of valid identities, and a malformed owner
\* or spender.
IsAuthorizedInputs ==
    (Addrs \X Addrs) \cup (MalformedAddrs \X {"user1"}) \cup ({"user1"} \X MalformedAddrs)

\* The host answers a query: storage is read-only to it.
Answer(msg, r) ==
    /\ last' = [info |-> QueryInfo, msg |-> msg, result |-> r.err]
    /\ data' = r.data
    /\ pre' = [auth |-> AUTHORIZED_SPENDERS, bal |-> BALANCES]
    /\ requests' = requests + 1
    /\ UNCHANGED <<BALANCES, AUTHORIZED_SPENDERS, ADMIN, DENOM, deposited,
                   grant_history, false_ledger>>

QueryBalance ==
    /\ requests < MaxRequests
    /\ \E owner \in AddrStrings :
        Answer(BalanceMsg(owner), query(BALANCES, AUTHORIZED_SPENDERS, BalanceMsg(owner)))

QueryIsAuthorized ==
    /\ requests < MaxRequests
    /\ \E arg \in IsAuthorizedInputs :
        Answer(IsAuthorizedMsg(arg[1], arg[2]),
               query(BALANCES, AUTHORIZED_SPENDERS, IsAuthorizedMsg(arg[1], arg[2])))

\* Execute requests and queries interleaved.
NextWithQueries ==
    Deposit \/ AuthorizeSpender \/ RevokeSpender \/ SpendFrom
        \/ QueryBalance \/ QueryIsAuthorized

SpecWithQueries == Init /\ [][NextWithQueries]_vars

----------------------------------------------------------------------------
(* Observations used by the properties *)

\* query.rs query_balance on a validated identity: the stored balance, 0 if absent.
BalanceOf(bal, a) == unwrap_or(may_load(bal, a), 0)

\* query.rs query_is_authorized on validated identities: the stored flag, false if absent.
Granted(auth, o, s) == unwrap_or(may_load(auth, <<o, s>>), FALSE)

RECURSIVE SumOver(_, _)
SumOver(bal, keys) ==
    IF keys = {} THEN 0
    ELSE LET k == CHOOSE x \in keys : TRUE IN bal[k] + SumOver(bal, keys \ {k})

\* Sum of all stored balances.
Total(bal) == SumOver(bal, DOMAIN bal)

Succeeded == last.result = NoErr

IsDeposit == last.msg.type = "Deposit"

IsSpendFrom == last.msg.type = "SpendFrom"

\* The last request was a SpendFrom whose owner string is a valid identity.
IsSpendOn(o) == IsSpendFrom /\ last.msg.owner = o

Caller == last.info.sender

Unchanged == BALANCES = pre.bal /\ AUTHORIZED_SPENDERS = pre.auth

InsufficientBalance == StdGenericErr("Insufficient balance")

----------------------------------------------------------------------------
(* Properties *)

\* C1 (as claimed): the sum of all balances equals the sum of the amounts of the
\* successful Deposits, and every request other than a successful Deposit leaves
\* the sum of all balances unchanged.
C1_Conservation ==
    /\ Total(BALANCES) = deposited
    /\ ~(IsDeposit /\ Succeeded) => Total(BALANCES) = Total(pre.bal)

\* C2 (as claimed): a balance decreases only in a successful SpendFrom that names
\* the account as owner and whose caller is the owner or holds the owner's grant.
C2_TheftFreedom ==
    \A a \in Addrs :
        BalanceOf(BALANCES, a) < BalanceOf(pre.bal, a) =>
            /\ IsSpendOn(a)
            /\ Succeeded
            /\ (Caller = a \/ Granted(pre.auth, a, Caller))

C4_NonNegativity ==
    /\ \A a \in DOMAIN BALANCES : BALANCES[a] \in 0..U128_MAX
    /\ \A o \in Addrs :
        /\ (IsSpendOn(o) /\ Succeeded) =>
            /\ last.msg.amount <= BalanceOf(pre.bal, o)
            /\ Caller # o =>
                BalanceOf(BALANCES, o) = BalanceOf(pre.bal, o) - last.msg.amount
        /\ (IsSpendOn(o) /\ last.msg.amount = BalanceOf(pre.bal, o)) =>
            last.result # InsufficientBalance

\* C4 witness: a granted caller spent exactly the owner's whole balance, leaving 0.
C4_Witness ==
    \E o \in Addrs :
        /\ IsSpendOn(o) /\ Succeeded /\ Caller # o
        /\ last.msg.amount > 0
        /\ last.msg.amount = BalanceOf(pre.bal, o)
        /\ BalanceOf(BALANCES, o) = 0

\* C5: a SpendFrom that fails as Unauthorized or for insufficient balance leaves
\* every balance and every grant as before the call.
C5_AtomicFailure ==
    (IsSpendFrom /\ last.result \in {Unauthorized, InsufficientBalance}) => Unchanged

\* C5 witness: a granted caller holding a balance asked for more than the owner
\* has, and was refused.
C5_Witness ==
    \E o \in Addrs :
        /\ IsSpendOn(o) /\ Caller # o
        /\ last.result = InsufficientBalance
        /\ BalanceOf(pre.bal, o) > 0
        /\ Granted(pre.auth, o, Caller)

\* The last request was a successful AuthorizeSpender by o for s.
IsAuthorizeBy(o, s) ==
    /\ last.msg.type = "AuthorizeSpender" /\ Succeeded
    /\ Caller = o /\ last.msg.spender = s

\* The last request was a successful RevokeSpender by o for s.
IsRevokeBy(o, s) ==
    /\ last.msg.type = "RevokeSpender" /\ Succeeded
    /\ Caller = o /\ last.msg.spender = s

\* Every SpendFrom by s on o, whatever the amount, is refused as Unauthorized in
\* the current state.
SpendRefused(o, s) ==
    \A amount \in 0..U128_MAX :
        \A out \in execute(BALANCES, AUTHORIZED_SPENDERS, MessageInfo(s, <<>>),
                           SpendFromMsg(o, amount)) :
            out.result = Unauthorized /\ out.bal = BALANCES

\* C6: for spender # owner, right after a successful RevokeSpender(owner, spender)
\* every SpendFrom by spender on owner is refused as Unauthorized, whatever the
\* amount; this stays so across every later request other than a successful
\* AuthorizeSpender by owner for spender, and a SpendFrom by spender on owner
\* made in that period fails with Unauthorized.
C6_RevocationTakesEffect ==
    \A o \in Addrs : \A s \in Addrs \ {o} :
        /\ IsRevokeBy(o, s) => SpendRefused(o, s)
        /\ (~Granted(pre.auth, o, s) /\ ~IsAuthorizeBy(o, s)) =>
            /\ SpendRefused(o, s)
            /\ (IsSpendOn(o) /\ Caller = s) => last.result = Unauthorized

\* C6 witness: an owner holding a balance revoked a grant that was in force.
C6_Witness ==
    \E o \in Addrs : \E s \in Addrs \ {o} :
        /\ IsRevokeBy(o, s)
        /\ Granted(pre.auth, o, s)
        /\ BalanceOf(BALANCES, o) > 0

\* C7 (as claimed): a Deposit whose single attached coin has a denomination other
\* than the configured one fails and leaves the state unchanged.
C7_WrongDenomRejected ==
    (IsDeposit /\ Len(last.info.funds) = 1 /\ last.info.funds[1].denom # DENOM) =>
        (~Succeeded /\ Unchanged)

\* C8: a Deposit with no attached coin or with more than one fails and leaves
\* every balance and every grant unchanged.
C8_ExactlyOneCoin ==
    (IsDeposit /\ Len(last.info.funds) # 1) => (~Succeeded /\ Unchanged)

\* C8 witness: a Deposit carrying two coins was refused.
C8_Witness ==
    IsDeposit /\ Len(last.info.funds) = 2 /\ ~Succeeded

\* C9 (as claimed): a successful Deposit sets balance[caller] to its previous
\* value plus the attached amount and leaves every other balance and every grant
\* unchanged.
C9_DepositEffect ==
    (IsDeposit /\ Succeeded) =>
        /\ BalanceOf(BALANCES, Caller) =
               BalanceOf(pre.bal, Caller) + last.info.funds[1].amount
        /\ \A a \in Addrs \ {Caller} : BalanceOf(BALANCES, a) = BalanceOf(pre.bal, a)
        /\ AUTHORIZED_SPENDERS = pre.auth

\* C10 (as claimed): a successful SpendFrom with caller # owner lowers
\* balance[owner] by amount, raises balance[caller] by amount, leaves every third
\* balance unchanged and keeps grant[(owner, caller)] true.
C10_SpendEffect ==
    \A o \in Addrs :
        (IsSpendOn(o) /\ Succeeded /\ Caller # o) =>
            /\ BalanceOf(BALANCES, o) = BalanceOf(pre.bal, o) - last.msg.amount
            /\ BalanceOf(BALANCES, Caller) = BalanceOf(pre.bal, Caller) + last.msg.amount
            /\ \A a \in Addrs \ {o, Caller} : BalanceOf(BALANCES, a) = BalanceOf(pre.bal, a)
            /\ Granted(AUTHORIZED_SPENDERS, o, Caller)

\* C11: a SpendFrom whose owner is the caller, with amount <= balance[caller],
\* succeeds whether or not any grant exists and leaves every balance and every
\* grant as before the call.
C11_SelfSpendNoOp ==
    \A a \in Addrs :
        (IsSpendOn(a) /\ Caller = a /\ last.msg.amount <= BalanceOf(pre.bal, a)) =>
            /\ Succeeded
            /\ \A x \in Addrs : BalanceOf(BALANCES, x) = BalanceOf(pre.bal, x)
            /\ AUTHORIZED_SPENDERS = pre.auth

\* C11 witness: an account holding a balance and no grant on itself spent a
\* positive amount from itself.
C11_Witness ==
    \E a \in Addrs :
        /\ IsSpendOn(a) /\ Caller = a /\ Succeeded
        /\ last.msg.amount > 0
        /\ last.msg.amount <= BalanceOf(pre.bal, a)
        /\ ~Granted(pre.auth, a, a)

\* C12: a SpendFrom whose owner is the caller, with amount > balance[caller],
\* fails for insufficient balance and leaves every balance and grant unchanged.
C12_SelfSpendChecked ==
    \A a \in Addrs :
        (IsSpendOn(a) /\ Caller = a /\ last.msg.amount > BalanceOf(pre.bal, a)) =>
            (last.result = InsufficientBalance /\ Unchanged)

\* C12 witness: an account holding a positive balance asked for more than it holds
\* from itself and was refused.
C12_Witness ==
    \E a \in Addrs :
        /\ IsSpendOn(a) /\ Caller = a
        /\ BalanceOf(pre.bal, a) > 0
        /\ last.msg.amount > BalanceOf(pre.bal, a)
        /\ last.result = InsufficientBalance

\* C13: a SpendFrom with a malformed owner fails with the validation error whatever
\* the grants and balances; with a valid owner, a caller that is neither the owner
\* nor granted gets Unauthorized, also when amount exceeds balance[owner]; the
\* insufficient-balance error goes only to a caller that is the owner or granted.
C13_PreconditionOrder ==
    /\ (IsSpendFrom /\ last.msg.owner \in MalformedAddrs) =>
        (last.result = addr_validate(last.msg.owner).err /\ Unchanged)
    /\ \A o \in Addrs :
        (IsSpendOn(o) /\ Caller # o /\ ~Granted(pre.auth, o, Caller)) =>
            last.result = Unauthorized
    /\ (IsSpendFrom /\ last.result = InsufficientBalance) =>
        /\ last.msg.owner \in Addrs
        /\ Caller = last.msg.owner \/ Granted(pre.auth, last.msg.owner, Caller)

\* C13 witness: a caller without a grant asked for more than the owner holds and
\* was refused as Unauthorized.
C13_Witness ==
    \E o \in Addrs :
        /\ IsSpendOn(o) /\ Caller # o
        /\ ~Granted(pre.auth, o, Caller)
        /\ last.msg.amount > BalanceOf(pre.bal, o)
        /\ last.result = Unauthorized

\* C14 (as claimed): the four failures are of pairwise distinct kinds: a Deposit
\* rejected for its funds has a kind other than those of a malformed identity, of
\* Unauthorized and of insufficient balance; a SpendFrom refused for insufficient
\* balance has a kind other than that of a malformed identity and other than the
\* wrapped standard error.
C14_TypedFailures ==
    LET InvalidAddressKind ==
            ErrorKind(addr_validate(CHOOSE s \in MalformedAddrs : TRUE).err)
        WrappedKind == ErrorKind(StdGenericErr("storage"))
    IN  /\ (IsDeposit /\ Len(last.info.funds) # 1) =>
            ErrorKind(last.result) \notin
                {InvalidAddressKind, ErrorKind(Unauthorized), ErrorKind(InsufficientBalance)}
        /\ (IsSpendFrom /\ last.result = InsufficientBalance) =>
            ErrorKind(last.result) \notin {InvalidAddressKind, WrappedKind}

IsAuthorize == last.msg.type = "AuthorizeSpender"

C16_OnlyFundedOwnerAuthorizes ==
    (/\ IsAuthorize
     /\ BalanceOf(pre.bal, Caller) = 0
     /\ \E a \in Addrs \ {Caller} : BalanceOf(pre.bal, a) > 0) =>
        (~Succeeded /\ AUTHORIZED_SPENDERS = pre.auth)

IsRevoke == last.msg.type = "RevokeSpender"

\* C17: a RevokeSpender naming a valid spender for which the caller has no grant
\* succeeds and leaves every grant and every balance as before; after any
\* RevokeSpender of a valid spender IsAuthorized(caller, spender) answers false,
\* and the same RevokeSpender sent again succeeds and changes nothing.
C17_IdempotentRevoke ==
    (IsRevoke /\ last.msg.spender \in Addrs) =>
        /\ ~Granted(pre.auth, Caller, last.msg.spender) => (Succeeded /\ Unchanged)
        /\ query_is_authorized(AUTHORIZED_SPENDERS, Caller, last.msg.spender) =
               [err |-> NoErr, v |-> FALSE]
        /\ \A out \in execute(BALANCES, AUTHORIZED_SPENDERS, last.info, last.msg) :
               out = Outcome(BALANCES, AUTHORIZED_SPENDERS, NoErr)

\* C17 witness: an owner revoked a pair that had no grant, while another grant of
\* the same owner was in force.
C17_Witness ==
    /\ IsRevoke /\ Succeeded
    /\ last.msg.spender \in Addrs
    /\ ~Granted(pre.auth, Caller, last.msg.spender)
    /\ \E s \in Addrs \ {last.msg.spender} : Granted(AUTHORIZED_SPENDERS, Caller, s)

IsQuery == last.msg.type \in {"Balance", "IsAuthorized"}

\* C18: a Balance query for a valid identity succeeds and returns the stored
\* balance, 0 when none is stored; an IsAuthorized query for valid identities
\* succeeds and returns the stored flag, false when none is stored; a query
\* changes no balance, no grant and no configuration value.
C18_QueriesPure ==
    /\ (last.msg.type = "Balance" /\ last.msg.owner \in Addrs) =>
        /\ last.result = NoErr
        /\ data = <<to_json_binary(IF last.msg.owner \in DOMAIN BALANCES
                                   THEN BALANCES[last.msg.owner] ELSE 0)>>
    /\ (last.msg.type = "IsAuthorized"
            /\ last.msg.owner \in Addrs /\ last.msg.spender \in Addrs) =>
        /\ last.result = NoErr
        /\ data = <<to_json_binary(
                      /\ <<last.msg.owner, last.msg.spender>> \in DOMAIN AUTHORIZED_SPENDERS
                      /\ AUTHORIZED_SPENDERS[<<last.msg.owner, last.msg.spender>>])>>
    /\ IsQuery =>
        /\ Unchanged
        /\ ADMIN = InstantiateMsg.admin /\ DENOM = InstantiateMsg.denom

\* C18 witness: with a balance stored for another account, a Balance query for an
\* account that was never credited answered 0.
C18_Witness ==
    /\ last.msg.type = "Balance"
    /\ last.msg.owner \in Addrs \ DOMAIN BALANCES
    /\ \E a \in DOMAIN BALANCES : BALANCES[a] > 0
    /\ data = <<to_json_binary(0)>>

\* C19: a SpendFrom by the administrator on another owner that has not granted it
\* fails with Unauthorized and changes nothing; a request by the administrator
\* changes another account's balance only as a successful SpendFrom on an owner
\* that granted the administrator, and changes no grant of another owner.
C19_NoAdminOverride ==
    Caller = ADMIN =>
        \A o \in Addrs \ {ADMIN} :
            /\ (IsSpendOn(o) /\ ~Granted(pre.auth, o, ADMIN)) =>
                (last.result = Unauthorized /\ Unchanged)
            /\ BalanceOf(BALANCES, o) # BalanceOf(pre.bal, o) =>
                (IsSpendOn(o) /\ Succeeded /\ Granted(pre.auth, o, ADMIN))
            /\ \A s \in Addrs :
                Granted(AUTHORIZED_SPENDERS, o, s) = Granted(pre.auth, o, s)

\* C19 witness: the administrator, holding no grant, asked for an amount the owner
\* holds and was refused.
C19_Witness ==
    \E o \in Addrs \ {ADMIN} :
        /\ IsSpendOn(o) /\ Caller = ADMIN
        /\ ~Granted(pre.auth, o, ADMIN)
        /\ last.msg.amount > 0
        /\ last.msg.amount <= BalanceOf(pre.bal, o)
        /\ last.result = Unauthorized

\* C20: in every state after setup the administrator and the accepted denomination
\* are the values given at setup, whatever execute requests and queries were
\* handled.
C20_ConfigReadOnly ==
    /\ ADMIN = addr_validate(InstantiateMsg.admin).v
    /\ DENOM = InstantiateMsg.denom

\* C20 witness: after a successful Deposit, with a grant in force for a spender
\* holding a balance, a query was answered.
C20_Witness ==
    /\ IsQuery
    /\ deposited > 0
    /\ \E o \in Addrs : \E s \in Addrs \ {o} :
        /\ Granted(AUTHORIZED_SPENDERS, o, s)
        /\ BalanceOf(BALANCES, s) > 0

\* C21: an AuthorizeSpender or RevokeSpender whose spender string is malformed,
\* and a SpendFrom whose owner string is malformed, fails with the validation
\* error and leaves every balance and every grant unchanged.
C21_MalformedRejected ==
    /\ ((IsAuthorize \/ IsRevoke) /\ last.msg.spender \notin Addrs) =>
        (last.result = addr_validate(last.msg.spender).err /\ ~Succeeded /\ Unchanged)
    /\ (IsSpendFrom /\ last.msg.owner \notin Addrs) =>
        (last.result = addr_validate(last.msg.owner).err /\ ~Succeeded /\ Unchanged)

\* C21 witness: with a balance and a grant stored, an AuthorizeSpender naming a
\* malformed spender was refused.
C21_Witness ==
    /\ IsAuthorize /\ last.msg.spender \in MalformedAddrs
    /\ ~Succeeded
    /\ DOMAIN pre.bal # {} /\ DOMAIN pre.auth # {}

\* C22: grant[(o, s)] changes only in a successful AuthorizeSpender or
\* RevokeSpender sent by o and naming s; AuthorizeSpender and RevokeSpender change
\* no balance.
C22_GrantsOnlyByOwner ==
    /\ \A o \in AddrStrings, s \in AddrStrings :
        may_load(AUTHORIZED_SPENDERS, <<o, s>>) # may_load(pre.auth, <<o, s>>) =>
            /\ IsAuthorize \/ IsRevoke
            /\ Succeeded
            /\ Caller = o /\ last.msg.spender = s
    /\ (IsAuthorize \/ IsRevoke) => BALANCES = pre.bal

\* C22 witness: an owner holding a balance granted a spender that another owner had
\* granted before, and that other grant is still in force.
C22_Witness ==
    \E o \in Addrs : \E s \in Addrs \ {o} : \E o2 \in Addrs \ {o} :
        /\ IsAuthorizeBy(o, s)
        /\ ~Granted(pre.auth, o, s)
        /\ Granted(pre.auth, o2, s) /\ Granted(AUTHORIZED_SPENDERS, o2, s)
        /\ BalanceOf(BALANCES, o) > 0

\* The successful grant requests of o for s, oldest first.
GrantRequests(o, s) == unwrap_or(may_load(grant_history, <<o, s>>), <<>>)

\* C23: grant[(o, s)] is true exactly when the most recent successful
\* AuthorizeSpender or RevokeSpender of o for s was an AuthorizeSpender; an
\* AuthorizeSpender of a pair already granted leaves the state as it was.
C23_LastRequestWins ==
    \A o \in Addrs, s \in Addrs :
        /\ Granted(AUTHORIZED_SPENDERS, o, s) <=>
            /\ GrantRequests(o, s) # <<>>
            /\ GrantRequests(o, s)[Len(GrantRequests(o, s))] = "AuthorizeSpender"
        /\ (IsAuthorizeBy(o, s) /\ Granted(pre.auth, o, s)) => Unchanged

\* C23 witness: an owner authorized, revoked and authorized the same spender again,
\* and the grant is in force.
C23_Witness ==
    \E o \in Addrs : \E s \in Addrs \ {o} :
        /\ GrantRequests(o, s) = <<"AuthorizeSpender", "RevokeSpender", "AuthorizeSpender">>
        /\ Granted(AUTHORIZED_SPENDERS, o, s)

\* C24: the ledger whose RevokeSpender removes the entry and the ledger whose
\* RevokeSpender stores false, fed the same requests, answer every IsAuthorized
\* query alike and give every SpendFrom the same result and the same balances.
C24_RevokeDeleteOrFalse ==
    /\ \A o \in AddrStrings, s \in AddrStrings :
        query_is_authorized(AUTHORIZED_SPENDERS, o, s) =
            query_is_authorized(false_ledger.auth, o, s)
    /\ IsSpendFrom =>
        /\ last.result = false_ledger.result
        /\ \A a \in Addrs : BalanceOf(BALANCES, a) = BalanceOf(false_ledger.bal, a)

\* C24 witness: after a revoke that the second ledger keeps as a stored false, the
\* revoked spender asked for an amount the owner holds and both ledgers refused.
C24_Witness ==
    \E o \in Addrs :
        /\ IsSpendOn(o) /\ Caller # o
        /\ last.msg.amount > 0
        /\ last.msg.amount <= BalanceOf(pre.bal, o)
        /\ <<o, Caller>> \notin DOMAIN AUTHORIZED_SPENDERS
        /\ <<o, Caller>> \in DOMAIN false_ledger.auth
        /\ last.result = Unauthorized /\ false_ledger.result = Unauthorized

\* C25 (as claimed, the serialized half): when every request runs as one atomic
\* step, the sum of all balances equals the sum of the successful Deposits and no
\* successful SpendFrom takes more than the owner's balance.
C25_SerializedIsSafe ==
    /\ SumOver(BALANCES, DOMAIN BALANCES) = deposited
    /\ \A o \in Addrs :
        (IsSpendOn(o) /\ Succeeded) => last.msg.amount <= BalanceOf(pre.bal, o)

\* C26 (as claimed): a successful Deposit leaves balance[caller] equal to the exact
\* sum of the previous balance and the attached amount, and a Deposit whose sum
\* exceeds the largest value does not succeed.
C26_DepositNeverWraps ==
    (IsDeposit /\ Len(last.info.funds) = 1) =>
        LET sum == BalanceOf(pre.bal, Caller) + last.info.funds[1].amount
        IN  /\ Succeeded => BalanceOf(BALANCES, Caller) = sum
            /\ sum > U128_MAX => ~Succeeded

\* C27 (as claimed): a SpendFrom by a granted caller with amount <= balance[owner]
\* and balance[caller] + amount above the largest value fails and leaves both
\* balances as they were.
C27_CreditOverflowAllOrNothing ==
    \A o \in Addrs :
        (/\ IsSpendOn(o) /\ Caller # o
         /\ Granted(pre.auth, o, Caller)
         /\ last.msg.amount <= BalanceOf(pre.bal, o)
         /\ BalanceOf(pre.bal, Caller) + last.msg.amount > U128_MAX) =>
            /\ ~Succeeded
            /\ BalanceOf(BALANCES, o) = BalanceOf(pre.bal, o)
            /\ BalanceOf(BALANCES, Caller) = BalanceOf(pre.bal, Caller)

\* C28: a balance increases only in a successful Deposit or SpendFrom sent by the
\* account itself; no request increases the balance of an account other than its
\* caller.
C28_CreditsSelfDirected ==
    \A a \in Addrs :
        BalanceOf(BALANCES, a) > BalanceOf(pre.bal, a) =>
            /\ Caller = a
            /\ Succeeded
            /\ IsDeposit \/ IsSpendFrom

\* C28 witness: a granted caller spent a positive amount from an owner; its own
\* balance rose and the owner's fell.
C28_Witness ==
    \E o \in Addrs :
        /\ IsSpendOn(o) /\ Caller # o /\ Succeeded
        /\ BalanceOf(BALANCES, Caller) > BalanceOf(pre.bal, Caller)
        /\ BalanceOf(BALANCES, o) < BalanceOf(pre.bal, o)

====
